---- MODULE Spec2Model ----
(***************************************************************************)
(* The entity search dialog of Indico (searchFactory, UserSearch,          *)
(* GroupSearch) as a state machine.                                        *)
(*                                                                         *)
(* One instance of the component produced by searchFactory is modelled:    *)
(* its props, the two pieces of state of Search (open, staged), the state  *)
(* of the SearchContent / SearchForm subtree that lives inside the modal   *)
(* (result, the form values, submitting, the submission error, the user    *)
(* search info), and the HTTP search requests in flight.                   *)
(*                                                                         *)
(* The modal renders its content only while open, so every transition of   *)
(* open to false unmounts SearchContent and the form: their state is lost, *)
(* and a setResult that arrives later for that instance changes nothing.   *)
(* Each UI event runs its handler to completion and React re-renders       *)
(* before the next event, so every handler reads the current state.        *)
(***************************************************************************)
EXTENDS Integers, Sequences, FiniteSets, TLC

\* ------------------------------------------------------------------ bounds
\* Number of distinct identifiers the server and the favorites know.
NumIds == 2
\* Number of search requests one run submits.
MaxRequests == 2

Ids == 1..NumIds

\* ------------------------------------------------------------------- state
VARIABLES
    \* props of the component
    kind,               \* "user" (InnerUserSearch) or "group" (GroupSearch)
    single,
    disabled,
    existing,           \* set of identifiers
    favorites,          \* set of items (the values of the favorites object)
    withExternalUsers,
    initialFormValues,  \* the initialFormValues prop of _UserSearch
    \* state of Search
    open,
    staged,
    \* state of SearchContent, SearchForm and UserSearchFields (mounted while open)
    result,             \* <<>> for null, <<data>> otherwise
    values,             \* the form values: a function from field names
    submitting,
    submitError,        \* <<>> or <<error object>>
    info,               \* answer of the user search info endpoint
    \* the network
    pending,            \* search requests in flight: the id, and whether the
                        \* SearchContent that issued it is still mounted
    nreq,               \* number of search requests issued so far
    \* observation of the run
    event,              \* the handler that ran last, and the item it was given
    calls,              \* the calls of the props' callbacks made by that handler
    stagedLog,          \* items accepted into staged since the dialog opened
    resultOf            \* the request whose response result holds (0: none)

props == <<kind, single, disabled, existing, favorites, withExternalUsers,
           initialFormValues>>
searchState == <<open, staged>>
formState == <<result, values, submitting, submitError, info>>
network == <<pending, nreq>>
observed == <<event, calls, stagedLog, resultOf>>
vars == <<props, searchState, formState, network, observed>>

\* ------------------------------------------------------------------- items
\* An item as the result mapping of runSearch builds it.
ResultItemOf(i) == [identifier |-> i, name |-> "result"]
\* An item as the favorites prop holds it.
FavoriteItemOf(i) == [identifier |-> i, name |-> "favorite"]

AllFavorites == {FavoriteItemOf(i) : i \in Ids}

\* The response bodies the search endpoint may send, after runSearch has
\* reshaped them: the first n matches and their count.
ResultData(n) == [results |-> [k \in 1..n |-> ResultItemOf(k)], total |-> n]
Responses == {ResultData(n) : n \in 0..NumIds}

Errors == {"error"}

Event(op) == [op |-> op, item |-> <<>>]
ItemEvent(op, item) == [op |-> op, item |-> <<item>>]

\* A call of a callback prop: onAddItems gets one item (single) or a list.
CallOnAddItem(item) == [fn |-> "onAddItems", isList |-> FALSE, arg |-> <<item>>]
CallOnAddItems(list) == [fn |-> "onAddItems", isList |-> TRUE, arg |-> list]
CallOnOpen == [fn |-> "onOpen", isList |-> FALSE, arg |-> <<>>]
CallOnClose == [fn |-> "onClose", isList |-> FALSE, arg |-> <<>>]
\* The HTTP request a handler sends: indicoAxios.get(url(query)).
CallGet(query) == [fn |-> "indicoAxios.get", isList |-> FALSE, arg |-> <<query>>]

\* -------------------------------------------------------------------- form
TextFields == {"first_name", "last_name", "email", "affiliation"}
CheckboxFields == {"external", "exact"}

With(f, k, v) == [x \in DOMAIN f \cup {k} |-> IF x = k THEN v ELSE f[x]]
Without(f, k) == [x \in DOMAIN f \ {k} |-> f[x]]
NoValues == [x \in {} |-> TRUE]

\* !!val of the form data: a text field holds a non-empty string or is absent
\* (the form stores an emptied input as undefined), a checkbox holds a boolean.
Truthy(data, f) == f \in DOMAIN data /\ (f \in CheckboxFields => data[f] = TRUE)

\* _UserSearch: the initial values SearchForm gets from the context.
\* GroupSearch is used without the wrapper and gets the context's default, {}.
ContextInitialValues ==
    IF kind = "user"
    THEN IF ~withExternalUsers
         THEN Without(initialFormValues, "external")
         ELSE initialFormValues
    ELSE NoValues

\* UserSearchFields: hasExternals = data && data.externalUsersAvailable.
hasExternals == info = "available"

\* The fields the form renders.
ShownFields ==
    IF kind = "user"
    THEN TextFields \cup {"exact"} \cup (IF hasExternals THEN {"external"} ELSE {})
    ELSE {"name", "exact"}

\* validateForm taking the exact checkbox for a criterion.
ValidateForm_CountsExact(data) ==
    IF /\ ~Truthy(data, "first_name") /\ ~Truthy(data, "last_name")
       /\ ~Truthy(data, "email") /\ ~Truthy(data, "affiliation")
       /\ ~Truthy(data, "exact")
    THEN <<"No criteria specified">>
    ELSE <<>>

\* validateForm of InnerUserSearch: <<>> for no error.
ValidateForm(data) ==
    IF /\ ~Truthy(data, "first_name") /\ ~Truthy(data, "last_name")
       /\ ~Truthy(data, "email") /\ ~Truthy(data, "affiliation")
    THEN <<"No criteria specified">>
    ELSE <<>>

\* GroupSearch has no validateForm; its name field is required (v.required).
hasValidationErrors ==
    IF kind = "user" THEN ValidateForm(values) # <<>> ELSE ~Truthy(values, "name")

pristine == values = ContextInitialValues

\* The submit button of SearchForm is enabled.
CanSubmit == ~hasValidationErrors /\ ~pristine /\ ~submitting

\* runSearch: the query parameters built from the form data.
UserQuery(data) ==
    With([f \in {g \in DOMAIN data : Truthy(data, g)} |-> data[f]],
         "favorites_first", TRUE)
GroupQuery(data) == [f \in {g \in DOMAIN data : Truthy(data, g)} |-> data[f]]
Query(data) == IF kind = "user" THEN UserQuery(data) ELSE GroupQuery(data)

\* handleSubmitError: the object the form takes as its submission errors.
HandleSubmitError(error) == [FORM_ERROR |-> error]

\* ------------------------------------------------------------------ Search
\* isAdded comparing the staged objects instead of their identifiers.
IsAdded_ByObject(item) ==
    \/ item.identifier \in existing
    \/ \E k \in 1..Len(staged) : staged[k] = item

\* isAdded
IsAdded(item) ==
    \/ item.identifier \in existing
    \/ \E k \in 1..Len(staged) : staged[k].identifier = item.identifier

\* setStaged(prev => [item, ...prev])
AppendStaged_Prepend(prev, item) == <<item>> \o prev

\* setStaged(prev => [...prev, item])
AppendStaged(prev, item) == Append(prev, item)

\* The modal content leaves the tree: the state of SearchContent, of the form
\* and of UserSearchFields is dropped, and the requests it issued no longer
\* have a mounted component to deliver to.
Unmount ==
    /\ result' = <<>>
    /\ resultOf' = 0
    /\ values' = ContextInitialValues
    /\ submitting' = FALSE
    /\ submitError' = <<>>
    /\ info' = "unset"
    /\ pending' = {[r EXCEPT !.mounted = FALSE] : r \in pending}

\* handleOpenClick without its early return.
HandleOpenClick_IgnoresDisabled ==
    /\ event' = Event("handleOpenClick")
    /\ open' = TRUE
    /\ calls' = <<CallOnOpen>>
    /\ stagedLog' = IF open THEN stagedLog ELSE <<>>
    /\ UNCHANGED <<props, staged, formState, network, resultOf>>

\* handleOpenClick, from the trigger.
HandleOpenClick ==
    /\ event' = Event("handleOpenClick")
    /\ IF disabled
       THEN /\ calls' = <<>>
            /\ UNCHANGED <<open, stagedLog>>
       ELSE /\ open' = TRUE
            /\ calls' = <<CallOnOpen>>
            /\ stagedLog' = IF open THEN stagedLog ELSE <<>>
    /\ UNCHANGED <<props, staged, formState, network, resultOf>>

\* handleClose without setStaged([]).
HandleClose_KeepsStaged ==
    /\ open
    /\ event' = Event("handleClose")
    /\ open' = FALSE
    /\ calls' = <<CallOnClose>>
    /\ Unmount
    /\ UNCHANGED <<props, staged, nreq, stagedLog>>

\* handleClose, from the Cancel button and from the modal's onClose
\* (close icon, dimmer, escape).
HandleClose ==
    /\ open
    /\ event' = Event("handleClose")
    /\ staged' = <<>>
    /\ open' = FALSE
    /\ calls' = <<CallOnClose>>
    /\ Unmount
    /\ UNCHANGED <<props, nreq, stagedLog>>

\* handleAdd handing onAddItems a one-element list in single-selection mode.
HandleAdd_PassesList(item) ==
    IF single
    THEN /\ calls' = <<CallOnAddItems(<<item>>)>>
         /\ open' = FALSE
         /\ Unmount
         /\ UNCHANGED <<staged, stagedLog>>
    ELSE /\ calls' = <<>>
         /\ IF ~IsAdded(item)
            THEN /\ staged' = AppendStaged(staged, item)
                 /\ stagedLog' = Append(stagedLog, item)
            ELSE UNCHANGED <<staged, stagedLog>>
         /\ UNCHANGED <<open, formState, pending, resultOf>>

\* handleAdd
HandleAdd(item) ==
    IF single
    THEN /\ calls' = <<CallOnAddItem(item)>>
         /\ open' = FALSE
         /\ Unmount
         /\ UNCHANGED <<staged, stagedLog>>
    ELSE /\ calls' = <<>>
         /\ IF ~IsAdded(item)
            THEN /\ staged' = AppendStaged(staged, item)
                 /\ stagedLog' = Append(stagedLog, item)
            ELSE UNCHANGED <<staged, stagedLog>>
         /\ UNCHANGED <<open, formState, pending, resultOf>>

\* ResultItem: the add icon of a result row, rendered unless the row is added.
ResultClick(item) ==
    /\ open
    /\ result # <<>>
    /\ result[1].total # 0
    /\ \E k \in 1..Len(result[1].results) : result[1].results[k] = item
    /\ ~IsAdded(item)
    /\ event' = ItemEvent("resultClick", item)
    /\ HandleAdd(item)
    /\ UNCHANGED <<props, nreq>>

\* FavoriteItem: onClick runs onAdd whether or not the item shows as added;
\* the dropdown is disabled while the form is submitting.
FavoriteClick(item) ==
    /\ open
    /\ item \in favorites
    /\ ~submitting
    /\ event' = ItemEvent("favoriteClick", item)
    /\ HandleAdd(item)
    /\ UNCHANGED <<props, nreq>>

\* handleAddButtonClick without setStaged([]).
HandleAddButtonClick_KeepsStaged ==
    /\ open
    /\ ~single
    /\ Len(staged) # 0
    /\ event' = Event("handleAddButtonClick")
    /\ calls' = <<CallOnAddItems(staged)>>
    /\ open' = FALSE
    /\ Unmount
    /\ UNCHANGED <<props, staged, nreq, stagedLog>>

\* handleAddButtonClick, from the Confirm button (multi-selection only,
\* disabled while nothing is staged).
HandleAddButtonClick ==
    /\ open
    /\ ~single
    /\ Len(staged) # 0
    /\ event' = Event("handleAddButtonClick")
    /\ calls' = <<CallOnAddItems(staged)>>
    /\ staged' = <<>>
    /\ open' = FALSE
    /\ Unmount
    /\ UNCHANGED <<props, nreq, stagedLog>>

\* ---------------------------------------------------------------- the form
\* useIndicoAxios in UserSearchFields: the info request is made only with
\* withExternals, and its answer arrives while the fields are mounted.
InfoResponse(available) ==
    /\ open
    /\ kind = "user"
    /\ withExternalUsers
    /\ info = "unset"
    /\ info' = IF available THEN "available" ELSE "unavailable"
    /\ event' = Event("infoResponse")
    /\ calls' = <<>>
    /\ UNCHANGED <<props, searchState, result, values, submitting, submitError,
                   network, stagedLog, resultOf>>

\* The user types into a text input of the form.
ChangeText(f, v) ==
    /\ open
    /\ f \in ShownFields \ CheckboxFields
    /\ values' = IF v = "" THEN Without(values, f) ELSE With(values, f, v)
    /\ values' # values
    /\ event' = Event("change")
    /\ calls' = <<>>
    /\ UNCHANGED <<props, searchState, result, submitting, submitError, info,
                   network, stagedLog, resultOf>>

\* The user clicks a checkbox of the form.
ToggleCheckbox(f) ==
    /\ open
    /\ f \in ShownFields \cap CheckboxFields
    /\ values' = With(values, f, ~Truthy(values, f))
    /\ event' = Event("change")
    /\ calls' = <<>>
    /\ UNCHANGED <<props, searchState, result, submitting, submitError, info,
                   network, stagedLog, resultOf>>

\* runSearch without its setResult(null).
Submit_KeepsResult ==
    /\ open
    /\ CanSubmit
    /\ nreq < MaxRequests
    /\ submitting' = TRUE
    /\ submitError' = <<>>
    /\ nreq' = nreq + 1
    /\ pending' = pending \cup {[id |-> nreq + 1, mounted |-> TRUE]}
    /\ event' = Event("submit")
    /\ calls' = <<CallGet(Query(values))>>
    /\ UNCHANGED <<props, searchState, result, resultOf, values, info, stagedLog>>

\* The form is submitted: runSearch up to its await.
Submit ==
    /\ open
    /\ CanSubmit
    /\ nreq < MaxRequests
    /\ result' = <<>>
    /\ resultOf' = 0
    /\ submitting' = TRUE
    /\ submitError' = <<>>
    /\ nreq' = nreq + 1
    /\ pending' = pending \cup {[id |-> nreq + 1, mounted |-> TRUE]}
    /\ event' = Event("submit")
    /\ calls' = <<CallGet(Query(values))>>
    /\ UNCHANGED <<props, searchState, values, info, stagedLog>>

\* setResult reaching whatever SearchContent is mounted now.
SearchSucceeded_AnyMount(req, data) ==
    /\ req \in pending
    /\ pending' = pending \ {req}
    /\ IF open
       THEN /\ result' = <<data>>
            /\ resultOf' = req.id
            /\ submitting' = IF req.mounted THEN FALSE ELSE submitting
       ELSE UNCHANGED <<result, resultOf, submitting>>
    /\ event' = Event("searchSucceeded")
    /\ calls' = <<>>
    /\ UNCHANGED <<props, searchState, values, submitError, info, nreq,
                   stagedLog>>

\* runSearch after its await, the request answered: setResult(resultData).
\* The setter belongs to the SearchContent that submitted.
SearchSucceeded(req, data) ==
    /\ req \in pending
    /\ pending' = pending \ {req}
    /\ IF req.mounted
       THEN /\ result' = <<data>>
            /\ resultOf' = req.id
            /\ submitting' = FALSE
       ELSE UNCHANGED <<result, resultOf, submitting>>
    /\ event' = Event("searchSucceeded")
    /\ calls' = <<>>
    /\ UNCHANGED <<props, searchState, values, submitError, info, nreq, stagedLog>>

\* runSearch after its await, the request failed: return handleSubmitError(error).
SearchFailed(req, error) ==
    /\ req \in pending
    /\ pending' = pending \ {req}
    /\ IF req.mounted
       THEN /\ submitError' = <<HandleSubmitError(error)>>
            /\ submitting' = FALSE
       ELSE UNCHANGED <<submitError, submitting>>
    /\ event' = Event("searchFailed")
    /\ calls' = <<>>
    /\ UNCHANGED <<props, searchState, result, resultOf, values, info, nreq, stagedLog>>

\* ---------------------------------------------------- the embedding page
\* The page renders the component again with another disabled.
SetDisabled ==
    /\ disabled' = ~disabled
    /\ event' = Event("render")
    /\ calls' = <<>>
    /\ UNCHANGED <<kind, single, existing, favorites, withExternalUsers,
                   initialFormValues, searchState, formState, network,
                   stagedLog, resultOf>>

\* The page renders the component again with another existing.
SetExisting(ids) ==
    /\ ids # existing
    /\ existing' = ids
    /\ event' = Event("render")
    /\ calls' = <<>>
    /\ UNCHANGED <<kind, single, disabled, favorites, withExternalUsers,
                   initialFormValues, searchState, formState, network,
                   stagedLog, resultOf>>

\* ------------------------------------------------------------ specification
\* The component right after its first render: closed, nothing staged.
InitState ==
    /\ open = FALSE
    /\ staged = <<>>
    /\ result = <<>>
    /\ values = ContextInitialValues
    /\ submitting = FALSE
    /\ submitError = <<>>
    /\ info = "unset"
    /\ pending = {}
    /\ nreq = 0
    /\ event = Event("mount")
    /\ calls = <<>>
    /\ stagedLog = <<>>
    /\ resultOf = 0

\* The first text input of the form.
FirstField == IF kind = "user" THEN "first_name" ELSE "name"

\* The values of existing the embedding page passes.
ExistingChoices == SUBSET Ids

\* The dialog: a user or group search, in either selection mode, with
\* favorites, without external users and without form defaults. The user
\* types into the first text input only. single is the mode an instance is
\* built with and stays as it is; disabled and existing change whenever the
\* embedding page renders the component again.
Init ==
    /\ kind \in {"user", "group"}
    /\ single \in BOOLEAN
    /\ disabled = FALSE
    /\ existing = {}
    /\ favorites = AllFavorites
    /\ withExternalUsers = FALSE
    /\ initialFormValues = NoValues
    /\ InitState

Next ==
    \/ HandleOpenClick
    \/ HandleClose
    \/ \E i \in Ids : ResultClick(ResultItemOf(i))
    \/ \E i \in Ids : FavoriteClick(FavoriteItemOf(i))
    \/ HandleAddButtonClick
    \/ \E v \in {"", "a"} : ChangeText(FirstField, v)
    \/ Submit
    \/ \E req \in pending : \E data \in Responses : SearchSucceeded(req, data)
    \/ \E req \in pending : \E error \in Errors : SearchFailed(req, error)
    \/ SetDisabled
    \/ \E ids \in ExistingChoices : SetExisting(ids)

Spec == Init /\ [][Next]_vars

\* The search form: a user or group search in multi-selection mode without
\* favorites, with every choice of withExternalUsers and of the form defaults.
\* The user edits every field and searches; nothing is picked.
InitialFormValuesChoices == {NoValues, [external |-> TRUE], [exact |-> TRUE]}

InitForm ==
    /\ kind \in {"user", "group"}
    /\ single = FALSE
    /\ disabled = FALSE
    /\ existing = {}
    /\ favorites = {}
    /\ withExternalUsers \in IF kind = "user" THEN BOOLEAN ELSE {FALSE}
    /\ initialFormValues \in IF kind = "user" THEN InitialFormValuesChoices ELSE {NoValues}
    /\ InitState

NextForm ==
    \/ HandleOpenClick
    \/ HandleClose
    \/ \E a \in BOOLEAN : InfoResponse(a)
    \/ \E f \in TextFields \cup {"name"} : \E v \in {"", "a"} : ChangeText(f, v)
    \/ \E f \in CheckboxFields : ToggleCheckbox(f)
    \/ Submit
    \/ \E req \in pending : SearchSucceeded(req, ResultData(NumIds))
    \/ \E req \in pending : \E error \in Errors : SearchFailed(req, error)

SpecForm == InitForm /\ [][NextForm]_vars

\* ------------------------------------------------------------------ claims
AddItemsCalls(cs) == {k \in 1..Len(cs) : cs[k].fn = "onAddItems"}
GetCalls(cs) == {k \in 1..Len(cs) : cs[k].fn = "indicoAxios.get"}
PickEvents == {"resultClick", "favoriteClick"}
PendingIds(reqs) == {r.id : r \in reqs}

\* C1: in multi-selection mode the staged list never holds two items with
\* the same identifier, whatever was picked from result rows and favorites.
NoDuplicateStaged ==
    ~single =>
        \A i, j \in 1..Len(staged) :
            i # j => staged[i].identifier # staged[j].identifier

\* A favorite was clicked whose identifier a result row had already staged.
DuplicatePickRejected ==
    /\ ~single
    /\ event.op = "favoriteClick"
    /\ \E k \in 1..Len(staged) :
        /\ staged[k].identifier = event.item[1].identifier
        /\ staged[k] # event.item[1]

\* C2: Confirm calls onAddItems exactly once, with the list of the items
\* staged since the dialog was opened in the order they were staged, and
\* leaves the staged list empty and the dialog closed.
ConfirmReturnsStaged ==
    [][event'.op = "handleAddButtonClick" =>
        /\ ~single
        /\ calls' = <<CallOnAddItems(stagedLog)>>
        /\ staged' = <<>>
        /\ ~open']_vars

\* Two items were confirmed.
ConfirmedTwoItems ==
    /\ event.op = "handleAddButtonClick"
    /\ Len(calls) = 1
    /\ Len(calls[1].arg) = 2
    /\ ~open

\* C3: Cancel and the close icon empty the staged list and close the dialog
\* without calling onAddItems; in multi-selection mode only Confirm calls
\* onAddItems.
CloseDiscardsStaged ==
    [][/\ event'.op = "handleClose" =>
            /\ staged' = <<>>
            /\ ~open'
            /\ AddItemsCalls(calls') = {}
       /\ (~single /\ AddItemsCalls(calls') # {}) =>
            event'.op = "handleAddButtonClick"]_vars

\* The dialog was closed by Cancel after items had been staged.
ClosedWithStagedItems ==
    /\ ~single
    /\ event.op = "handleClose"
    /\ stagedLog # <<>>
    /\ staged = <<>>
    /\ ~open

\* C4: a click on the trigger opens the dialog and calls onOpen once, unless
\* the component is disabled: then the dialog stays as it is and onOpen is
\* not called. Nothing else opens the dialog.
OnlyTriggerOpens ==
    [][/\ (event'.op = "handleOpenClick" /\ ~disabled) =>
            (open' /\ calls' = <<CallOnOpen>>)
       /\ (event'.op = "handleOpenClick" /\ disabled) =>
            (open' = open /\ calls' = <<>>)
       /\ (~open /\ open') =>
            (event'.op = "handleOpenClick" /\ ~disabled)]_vars

\* The trigger of a disabled, closed component was clicked.
DisabledClickIgnored ==
    /\ event.op = "handleOpenClick"
    /\ disabled
    /\ ~open
    /\ calls = <<>>

\* C5 as stated: at most one search request is pending at any time, and a
\* displayed result is the response of the search submitted last.
AtMostOnePending ==
    /\ Cardinality(pending) <= 1
    /\ result # <<>> => resultOf = nreq

\* C5, amended: at most one request of the mounted form is pending, and a
\* displayed result is the response of the search submitted last; requests
\* of a form that was closed stay in flight and their responses are dropped.
AtMostOnePendingPerMount ==
    /\ Cardinality({r \in pending : r.mounted}) <= 1
    /\ submitting <=> (\E r \in pending : r.mounted)
    /\ result # <<>> => (resultOf = nreq /\ ~submitting)

\* A result is displayed while a request of an earlier opening is in flight.
ResultBesideStaleRequest ==
    /\ result # <<>>
    /\ \E r \in pending : ~r.mounted /\ r.id < resultOf

\* C6: a submission sends exactly one HTTP request and nothing else ever
\* sends one; a failed request leaves result null, hands the error to the
\* form as its submission error, and leaves staged and open as they were.
FailedSearchStaysCleared ==
    [][/\ event'.op = "submit" =>
            /\ Cardinality(GetCalls(calls')) = 1
            /\ nreq' = nreq + 1
            /\ PendingIds(pending') = PendingIds(pending) \cup {nreq'}
       /\ event'.op # "submit" =>
            /\ GetCalls(calls') = {}
            /\ nreq' = nreq
            /\ PendingIds(pending') \subseteq PendingIds(pending)
       /\ event'.op = "searchFailed" =>
            /\ staged' = staged
            /\ open' = open
            /\ result' = result
            /\ \A r \in pending \ pending' : r.mounted =>
                    /\ result' = <<>>
                    /\ \E e \in Errors : submitError' = <<HandleSubmitError(e)>>
                    /\ ~submitting']_vars

\* A search failed while items were staged.
SearchFailedWhileStaged ==
    /\ event.op = "searchFailed"
    /\ submitError # <<>>
    /\ result = <<>>
    /\ staged # <<>>
    /\ open

\* C7: whenever the dialog is closed the staged list is empty.
ClosedMeansNothingStaged == ~open => staged = <<>>

\* The dialog was closed by Confirm after items had been staged.
ClosedAfterConfirm ==
    /\ ~open
    /\ event.op = "handleAddButtonClick"
    /\ stagedLog # <<>>

\* C8: an item whose identifier is in existing when it is picked is neither
\* staged nor passed to onAddItems, in either selection mode, from a result
\* row or from the favorites.
ExistingNeverPicked ==
    [][(event'.op \in PickEvents /\ event'.item[1].identifier \in existing) =>
            (staged' = staged /\ AddItemsCalls(calls') = {})]_vars

\* C9: while the external checkbox is hidden (withExternalUsers false, or
\* the server reports no external users) a default for external is not used:
\* no user search request sent then carries the external parameter.
ExternalHidden == ~withExternalUsers \/ info = "unavailable"
HiddenExternalIgnored ==
    (kind = "user" /\ ExternalHidden) =>
        \A k \in GetCalls(calls) : "external" \notin DOMAIN calls[k].arg[1]

\* C10: every user search request carries a non-empty first_name, last_name,
\* email or affiliation.
SearchNeedsCriteria ==
    (kind = "user" /\ event.op = "submit") =>
        /\ GetCalls(calls) # {}
        /\ \A k \in GetCalls(calls) :
            \E f \in TextFields : f \in DOMAIN calls[k].arg[1]

\* A user search was sent with one criterion and the exact checkbox set.
SearchWithExactSent ==
    /\ kind = "user"
    /\ event.op = "submit"
    /\ \E k \in GetCalls(calls) :
        /\ "exact" \in DOMAIN calls[k].arg[1]
        /\ Cardinality(DOMAIN calls[k].arg[1] \cap TextFields) = 1

OpenCalls(cs) == {k \in 1..Len(cs) : cs[k].fn = "onOpen"}
CloseCalls(cs) == {k \in 1..Len(cs) : cs[k].fn = "onClose"}

\* C11: onOpen and onClose alternate, starting with onOpen: onOpen is called
\* only when the dialog goes from closed to open, onClose only when it goes
\* from open to closed, and every transition from open to closed (Cancel,
\* close icon, Confirm, a pick in single-selection mode) calls onClose
\* exactly once.
OpenCloseAlternate ==
    [][/\ (open /\ ~open') => Cardinality(CloseCalls(calls')) = 1
       /\ CloseCalls(calls') # {} => (open /\ ~open')
       /\ OpenCalls(calls') # {} => (~open /\ open')]_vars

\* C12: in single-selection mode the staged list is empty in every state,
\* and a pick calls onAddItems exactly once, with the picked item itself and
\* not a list, and closes the dialog.
SinglePickReturnsItem ==
    [][single =>
        /\ staged = <<>>
        /\ staged' = <<>>
        /\ event'.op \in PickEvents =>
            /\ calls' = <<CallOnAddItem(event'.item[1])>>
            /\ ~calls'[1].isList
            /\ ~open']_vars

\* A result row was picked in single-selection mode.
SingleResultPicked ==
    /\ single
    /\ event.op = "resultClick"
    /\ Len(calls) = 1
    /\ calls[1].fn = "onAddItems"
    /\ calls[1].arg = event.item
    /\ ~open
    /\ staged = <<>>

====
